---- MODULE Spec2Model ----
(***************************************************************************)
(* A model of popcap_pak_extractor.c: the arena allocator, the record      *)
(* list, the XOR codec, the header parser and the extraction engine,       *)
(* together with the part of the file system the program talks to.         *)
(*                                                                         *)
(* Bytes are integers 0..255.  Strings are sequences of bytes; a C string  *)
(* is the prefix of such a sequence before its first 0 byte.               *)
(***************************************************************************)
EXTENDS Integers, Sequences, FiniteSets, TLC

VARIABLES
    pc,        \* position of the process in main and its callees
    args,      \* [argc, root, rootExists]: argument count, argv[2] as bytes, and
               \* whether a directory of that name is there when main starts
    input,     \* how the container file on disk was produced (never read by the program)
    pak,       \* res.pakFile: [state, bytes, pos, eof]
    sav,       \* res.filenameListSav: [state, lines, buffer]: the lines of the
               \* file on disk and those still in the stream's buffer
    arena,     \* res.arena: NoArena or [head, blockSize, blockNum, blocks]
    allocs,    \* the spans arena_malloc has returned so far: <<[block, off, size]>>
    header,    \* PakHeader: [magic, version, flist], attrs being the FileAttr objects
    attrs,     \* FileAttr objects by address: [fileName, fileSize, lastWriteTime, next]
    fs,        \* file system: [dirs, files]
    ex,        \* locals of extract_files / parse_and_extract_one_file
    rel,       \* how often each resource was acquired and released
    env,       \* bookkeeping of the environment: faults injected, out-of-bounds accesses
    exitCode   \* value returned by main, or NoExit

vars == <<pc, args, input, pak, sav, arena, allocs, header, attrs, fs, ex, rel, env, exitCode>>

NULL == 0
NoExit == -1

(***************************************************************************)
(* Program constants.                                                      *)
(***************************************************************************)
BYTES_OF_MAGIC == 4
BYTES_OF_VERSION == 4
BYTES_OF_FILE_SIZE == 4
BYTES_OF_FILE_TIME == 8
MAX_PATH == 260
ArenaBlockSize == 8192
ExtractBufSize == 8192
SizeofFileAttr == 32
XorKey == 247
HeaderEndFlag == 128
Backslash == 92

(***************************************************************************)
(* Bounds of the model.                                                    *)
(***************************************************************************)
MaxMallocs == 4
MaxFiles == 2
MaxFaults == 1
MaxDecodes == 2

Min(a, b) == IF a < b THEN a ELSE b

\* Body(x), with x evaluated once, before Body.
With(x, Body(_)) == CHOOSE y \in {Body(v) : v \in {x}} : TRUE

(***************************************************************************)
(* Stream codec.                                                           *)
(***************************************************************************)
\* The operator ^ of C on two bytes: bit by bit, the sum modulo 2.
BitXor(a, b) ==
    LET Bit(n, w) == (n \div w) % 2
        XorBit(w) == ((Bit(a, w) + Bit(b, w)) % 2) * w
    IN XorBit(1) + XorBit(2) + XorBit(4) + XorBit(8)
        + XorBit(16) + XorBit(32) + XorBit(64) + XorBit(128)

\* decode_one_byte adding the key instead.
decode_one_byte_adding(c) == (c + XorKey) % 256

\* (unsigned char)(c ^ 0xf7) for every byte c.
XorTable == [c \in 0..255 |-> BitXor(c, XorKey) % 256]

decode_one_byte(c) == XorTable[c]

\* decode_bytes with its loop ending one byte early.
decode_bytes_one_short(buf, len) ==
    [i \in 1..Len(buf) |-> IF i < len THEN decode_one_byte(buf[i]) ELSE buf[i]]

decode_bytes(buf, len) ==
    [i \in 1..Len(buf) |-> IF i <= len THEN decode_one_byte(buf[i]) ELSE buf[i]]

(***************************************************************************)
(* Arena allocator.  Blocks are numbered in creation order; next is the    *)
(* number of the block created before (NULL for the first), head the       *)
(* most recent one.                                                        *)
(***************************************************************************)
\* res.arena before arena_create and after arena_free.
NoArena == [head |-> NULL, blockSize |-> 0, blockNum |-> 0, blocks |-> <<>>]

arena_create(blockSize) ==
    [head |-> 1, blockSize |-> blockSize, blockNum |-> 1,
     blocks |-> <<[used |-> 0, capacity |-> blockSize, next |-> NULL]>>]

\* arena_create_new_block giving every block the default size.
arena_create_new_block_default_size(a, size, used) ==
    [a EXCEPT !.blocks = Append(@, [used |-> used, capacity |-> a.blockSize,
                                     next |-> a.head]),
              !.head = Len(a.blocks) + 1,
              !.blockNum = @ + 1]

arena_create_new_block(a, size, used) ==
    [a EXCEPT !.blocks = Append(@, [used |-> used, capacity |-> size, next |-> a.head]),
              !.head = Len(a.blocks) + 1,
              !.blockNum = @ + 1]

\* ArenaScan with the test of line 138 leaving out the size asked for.
RECURSIVE ArenaScan_ignoring_size(_, _, _)
ArenaScan_ignoring_size(a, cursor, size) ==
    IF cursor = NULL THEN NULL
    ELSE IF a.blocks[cursor].used <= a.blocks[cursor].capacity THEN cursor
    ELSE ArenaScan_ignoring_size(a, a.blocks[cursor].next, size)

\* The scan of arena_malloc's while loop: the first block, from cursor on,
\* with room for size bytes, or NULL.
RECURSIVE ArenaScan(_, _, _)
ArenaScan(a, cursor, size) ==
    IF cursor = NULL THEN NULL
    ELSE IF a.blocks[cursor].used + size <= a.blocks[cursor].capacity THEN cursor
    ELSE ArenaScan(a, a.blocks[cursor].next, size)

\* arena_malloc returning, from a block with room, the address after the
\* bytes it has just counted as used (line 140 without "- size").
arena_malloc_past_end(a, size) ==
    LET cursor == ArenaScan(a, a.head, size) IN
    IF cursor # NULL
    THEN [arena |-> [a EXCEPT !.blocks[cursor].used = @ + size],
          ptr |-> [block |-> cursor, off |-> a.blocks[cursor].used + size, size |-> size]]
    ELSE LET b == IF size < a.blockSize
                  THEN arena_create_new_block(a, a.blockSize, size)
                  ELSE arena_create_new_block(a, size, size)
         IN [arena |-> b, ptr |-> [block |-> b.head, off |-> 0, size |-> size]]

\* arena_malloc: the arena afterwards and the span returned.
arena_malloc(a, size) ==
    LET cursor == ArenaScan(a, a.head, size) IN
    IF cursor # NULL
    THEN [arena |-> [a EXCEPT !.blocks[cursor].used = @ + size],
          ptr |-> [block |-> cursor, off |-> a.blocks[cursor].used, size |-> size]]
    ELSE LET b == IF size < a.blockSize
                  THEN arena_create_new_block(a, a.blockSize, size)
                  ELSE arena_create_new_block(a, size, size)
         IN [arena |-> b, ptr |-> [block |-> b.head, off |-> 0, size |-> size]]

\* Whether arena_malloc(a, size) has to ask malloc for a new block.
ArenaNeedsBlock(a, size) == ArenaScan(a, a.head, size) = NULL

(***************************************************************************)
(* Record list.  A FileAttr lives at an address, here its index in attrs;  *)
(* file_attr_list_add gives the list and the FileAttr objects afterwards.  *)
(***************************************************************************)
file_attr_list_init == [head |-> NULL, tail |-> NULL, length |-> 0]

\* file_attr_list_add linking the new FileAttr in front of the list.
file_attr_list_add_in_front(flist, objs, attr) ==
    [flist |-> [head |-> attr,
                tail |-> IF flist.head = NULL THEN attr ELSE flist.tail,
                length |-> flist.length + 1],
     attrs |-> [objs EXCEPT ![attr].next = flist.head]]

file_attr_list_add(flist, objs, attr) ==
    LET cleared == [objs EXCEPT ![attr].next = NULL] IN
    IF flist.head = NULL
    THEN [flist |-> [head |-> attr, tail |-> attr, length |-> flist.length + 1],
          attrs |-> cleared]
    ELSE [flist |-> [head |-> flist.head, tail |-> attr, length |-> flist.length + 1],
          attrs |-> [cleared EXCEPT ![flist.tail].next = attr]]

\* The addresses met walking from cursor along next, at most fuel of them.
RECURSIVE Walk(_, _, _)
Walk(objs, cursor, fuel) ==
    IF cursor = NULL \/ fuel = 0 THEN <<>>
    ELSE <<cursor>> \o Walk(objs, objs[cursor].next, fuel - 1)

(***************************************************************************)
(* The container stream: fread and feof of the C library on a file opened  *)
(* "rb".  A read that comes up short leaves the rest of the destination    *)
(* as it was; where that was never written, its content is any byte g.     *)
(***************************************************************************)
fread(f, n) ==
    LET got == Min(n, Len(f.bytes) - f.pos) IN
    [data |-> SubSeq(f.bytes, f.pos + 1, f.pos + got),
     count |-> got,
     file |-> [f EXCEPT !.pos = @ + got, !.eof = @ \/ (got < n)]]

feof(f) == f.eof

Fill(data, n, g) == data \o [i \in 1..(n - Len(data)) |-> g]

\* A UINT32 is kept as its two 16-bit halves, [hi, lo], so that every
\* value of the type can be written down.  U32Of: from its 4 bytes in
\* memory (little-endian, as on every Windows target).
U32Of(b) == [lo |-> b[1] + 256 * b[2], hi |-> b[3] + 256 * b[4]]

U32(n) == [lo |-> n % 65536, hi |-> n \div 65536]

U32IsZero(u) == u.hi = 0 /\ u.lo = 0

\* u < n and min(u, n), for a size_t n below 65536.
U32Less(u, n) == u.hi = 0 /\ u.lo < n

\* The whole buffer asked for, whatever is left of the record.
U32Min_whole_buffer(u, n) == n

U32Min(u, n) == IF U32Less(u, n) THEN u.lo ELSE n

\* u - n in 32 bits, for n below 65536.
U32Minus(u, n) ==
    IF u.lo >= n THEN [u EXCEPT !.lo = @ - n]
    ELSE [lo |-> u.lo + 65536 - n, hi |-> (u.hi + 65535) % 65536]

\* The C string held in a byte sequence: what precedes the first 0 byte.
CStr(s) ==
    LET zeros == {i \in 1..Len(s) : s[i] = 0} IN
    IF zeros = {} THEN s
    ELSE SubSeq(s, 1, (CHOOSE j \in zeros : \A k \in zeros : j <= k) - 1)

(***************************************************************************)
(* Header parser.  g is the byte found in memory that was never written    *)
(* (a local, or fresh arena memory) when a read comes up short.            *)
(***************************************************************************)
parse_magic(f, g) ==
    LET r == fread(f, BYTES_OF_MAGIC) IN
    [file |-> r.file,
     magic |-> decode_bytes(Fill(r.data, BYTES_OF_MAGIC, g), BYTES_OF_MAGIC)]

parse_version(f, g) ==
    LET r == fread(f, BYTES_OF_VERSION) IN
    [file |-> r.file,
     version |-> decode_bytes(Fill(r.data, BYTES_OF_VERSION, g), BYTES_OF_VERSION)]

\* reach_pak_header_end looking at the byte without taking it off the stream.
reach_pak_header_end_peeking(f, g) ==
    LET r == fread(f, 1)
        flag == Fill(r.data, 1, g)[1]
    IN [file |-> f, end |-> decode_one_byte(flag) = HeaderEndFlag]

reach_pak_header_end(f, g) ==
    LET r == fread(f, 1)
        flag == Fill(r.data, 1, g)[1]
    IN [file |-> r.file, end |-> decode_one_byte(flag) = HeaderEndFlag]

parse_file_name(f, a, g) ==
    With(fread(f, 1), LAMBDA r :
    With(decode_one_byte(Fill(r.data, 1, g)[1]), LAMBDA filenameLen :
    With(arena_malloc(a, filenameLen + 1), LAMBDA m :
    With(fread(r.file, filenameLen), LAMBDA rn :
    With(Fill(rn.data, filenameLen, g), LAMBDA name :
    [file |-> rn.file, arena |-> m.arena, ptr |-> m.ptr,
     needsBlock |-> ArenaNeedsBlock(a, filenameLen + 1),
     fileName |-> decode_bytes(name, filenameLen)])))))

parse_file_size(f, g) ==
    LET r == fread(f, BYTES_OF_FILE_SIZE) IN
    [file |-> r.file,
     fileSize |-> U32Of(decode_bytes(Fill(r.data, BYTES_OF_FILE_SIZE, g),
                                        BYTES_OF_FILE_SIZE))]

parse_file_last_write_time(f, g) ==
    LET r == fread(f, BYTES_OF_FILE_TIME) IN
    [file |-> r.file,
     lastWriteTime |-> decode_bytes(Fill(r.data, BYTES_OF_FILE_TIME, g),
                                    BYTES_OF_FILE_TIME)]

\* One pass of the loop of parse_all_file_attrs, entered with feof false:
\* either the end flag is met, or one FileAttr is built and appended.
\* needsBlock tells whether one of the two arena_malloc calls asks malloc
\* for a new block (where the process aborts when malloc fails).
ParseOneAttr(f, a, flist, objs, g) ==
    With(reach_pak_header_end(f, g), LAMBDA e :
    IF e.end
    THEN [end |-> TRUE, file |-> e.file, arena |-> a, ptrs |-> <<>>,
          flist |-> flist, attrs |-> objs, needsBlock |-> FALSE]
    ELSE With(arena_malloc(a, SizeofFileAttr), LAMBDA m :
         With(parse_file_name(e.file, m.arena, g), LAMBDA n :
         With(parse_file_size(n.file, g), LAMBDA z :
         With(parse_file_last_write_time(z.file, g), LAMBDA t :
         With(file_attr_list_add(flist,
                  Append(objs, [fileName |-> n.fileName, fileSize |-> z.fileSize,
                                lastWriteTime |-> t.lastWriteTime, next |-> g]),
                  Len(objs) + 1), LAMBDA added :
         [end |-> FALSE, file |-> t.file, arena |-> n.arena,
          ptrs |-> <<m.ptr, n.ptr>>,
          flist |-> added.flist, attrs |-> added.attrs,
          needsBlock |-> ArenaNeedsBlock(a, SizeofFileAttr) \/ n.needsBlock]))))))

(***************************************************************************)
(* File system, as far as the program uses it.  fs.dirs is the set of      *)
(* directories, fs.files maps the path of each file to its content and     *)
(* the last-write time set on it (SystemTime: the time of its creation).   *)
(***************************************************************************)
SystemTime == <<>>

NoFiles == [p \in {} |-> 0]

\* A path without its trailing separators.
RECURSIVE Norm(_)
Norm(p) ==
    IF p # <<>> /\ p[Len(p)] = Backslash THEN Norm(SubSeq(p, 1, Len(p) - 1)) ELSE p

is_dir_exist(path, f) == Norm(path) # <<>> /\ Norm(path) \in f.dirs

\* Whether CreateDirectory(path) can succeed on f.
CanCreateDirectory(path, f) ==
    /\ Norm(path) # <<>>
    /\ Norm(path) \notin f.dirs
    /\ Norm(path) \notin DOMAIN f.files

\* Whether CreateFile(path, OPEN_ALWAYS) can succeed on f.
CanCreateNew_or_open(path, f) ==
    /\ path # <<>>
    /\ path[Len(path)] # Backslash
    /\ path \notin f.dirs

\* Whether CreateFile(path, CREATE_NEW) can succeed on f.
CanCreateNew(path, f) ==
    /\ path # <<>>
    /\ path[Len(path)] # Backslash
    /\ path \notin DOMAIN f.files
    /\ path \notin f.dirs

(***************************************************************************)
(* Extraction.                                                             *)
(***************************************************************************)
\* build_complete_path: the string written to buf, the index of buf at
\* which its terminating 0 is written, and whether extractPath[-1] is read.
\* before is the byte in front of extractPath.
build_complete_path(extractPath, fileName, before) ==
    LET last == IF extractPath # <<>> THEN extractPath[Len(extractPath)] ELSE before
        sep == IF last # Backslash THEN <<Backslash>> ELSE <<>>
        path == extractPath \o sep \o CStr(fileName)
    IN [path |-> path, lastIndex |-> Len(path), readsBefore |-> extractPath = <<>>]

\* The least element of a non-empty set of integers.
Least(S) == CHOOSE j \in S : \A k \in S : j <= k

\* recursive_create_parent_dirs from cursor i on: cursor moves on to the
\* next separator, if there is one.  fault makes the next CreateDirectory
\* call fail for a reason of the system's own.
RECURSIVE recursive_create_parent_dirs(_, _, _, _)
recursive_create_parent_dirs(path, i, f, fault) ==
    LET seps == {j \in i..Len(path) : path[j] = Backslash} IN
    IF seps = {} THEN [ok |-> TRUE, fs |-> f, faulted |-> FALSE]
    ELSE LET cursor == Least(seps)
             prefix == SubSeq(path, 1, cursor - 1)
         IN IF is_dir_exist(prefix, f)
            THEN recursive_create_parent_dirs(path, cursor + 1, f, fault)
            ELSE IF ~CanCreateDirectory(prefix, f)
                 THEN [ok |-> FALSE, fs |-> f, faulted |-> FALSE]
            ELSE IF fault THEN [ok |-> FALSE, fs |-> f, faulted |-> TRUE]
            ELSE recursive_create_parent_dirs(path, cursor + 1,
                     [f EXCEPT !.dirs = @ \cup {Norm(prefix)}], fault)

\* printf's %ld of a UINT32 where long has 32 bits.
FormatLd(u) ==
    IF u.hi < 32768 THEN u.hi * 65536 + u.lo ELSE (u.hi - 65536) * 65536 + u.lo

(***************************************************************************)
(* Containers the program is run on.  A container is built from files,     *)
(* each [flag, name, data, time, over], in one of two record layouts:      *)
(*   "flagged": [flag][L][name][size][time]   "plain": [L][name][size][time]*)
(* followed by the end flag and the payloads, every byte XOR-encoded, and  *)
(* possibly cut short.  over is what the most significant byte of the size *)
(* field declares beyond the payload there is (0 in a well-formed record). *)
(***************************************************************************)
xor_encode(bytes) == [i \in 1..Len(bytes) |-> XorTable[bytes[i]]]

LE32(n) == <<n % 256, (n \div 256) % 256, (n \div 65536) % 256, (n \div 16777216) % 256>>

RECURSIVE Concat(_)
Concat(ss) == IF ss = <<>> THEN <<>> ELSE Head(ss) \o Concat(Tail(ss))

RecordBytes(fmt, f) ==
    (IF fmt = "flagged" THEN <<f.flag>> ELSE <<>>)
        \o <<Len(f.name)>> \o f.name
        \o [LE32(Len(f.data)) EXCEPT ![BYTES_OF_FILE_SIZE] = @ + f.over]
        \o f.time

ExpectedMagic == <<192, 74, 192, 186>>
ExpectedVersion == <<0, 0, 0, 0>>

TableOf(fmt, files) ==
    ExpectedMagic \o ExpectedVersion
        \o Concat([i \in 1..Len(files) |-> RecordBytes(fmt, files[i])])
        \o <<HeaderEndFlag>>

PayloadsOf(files) == Concat([i \in 1..Len(files) |-> files[i].data])

ContainerOf(in) ==
    LET whole == xor_encode(TableOf(in.fmt, in.files) \o PayloadsOf(in.files))
    IN SubSeq(whole, 1, Len(whole) - in.cut)

Time1 == <<0, 128, 62, 213, 222, 177, 157, 1>>
Time2 == <<255, 247, 0, 1, 2, 3, 4, 5>>

FilePool ==
    { [flag |-> 0, name |-> <<97>>, data |-> <<104, 105>>, time |-> Time1, over |-> 0],
      [flag |-> 0, name |-> <<98>>, data |-> <<33>>, time |-> Time2, over |-> 0],
      [flag |-> 1, name |-> <<97>>, data |-> <<126, 0, 247>>, time |-> Time2, over |-> 0],
      [flag |-> 0, name |-> <<115, 92, 99>>, data |-> <<>>, time |-> Time1, over |-> 0],
      [flag |-> 0, name |-> <<104>>, data |-> <<>>, time |-> Time1, over |-> 128] }

FileSeqs == UNION {[1..n -> FilePool] : n \in 0..MaxFiles}

Inputs == [fmt : {"flagged", "plain"}, files : FileSeqs, cut : {0, 1}]

\* The file system main starts on: the extraction root is there or not.
InitialFs(root, rootExists) ==
    [dirs |-> IF rootExists THEN {Norm(root)} ELSE {}, files |-> NoFiles]

LongRoot == [i \in 1..(MAX_PATH - 2) |-> 100]

Roots == {<<>>, <<100>>, <<100, Backslash>>, LongRoot}

\* Bytes that memory never written may hold.
Garbage == {0, 119, 246}

(***************************************************************************)
(* The run of main.                                                        *)
(***************************************************************************)
NoCount == [acq |-> 0, rls |-> 0]

Acquire(c) == [c EXCEPT !.acq = @ + 1]
Release(c) == [c EXCEPT !.rls = @ + 1]

OldSavLines == <<[name |-> <<111, 108, 100>>, size |-> 0]>>

\* The sidecar once its buffer has been written out.
fflush(f) == [f EXCEPT !.lines = @ \o f.buffer, !.buffer = <<>>]

\* ex.hFile is the path of the file the handle is open on.
NoHandle == <<>>

NoLocals ==
    [attr |-> NULL, fileSize |-> U32(0), readLen |-> 0, buf |-> <<>>,
     hFile |-> NoHandle, path |-> <<>>, done |-> <<>>]

Init ==
    /\ pc = "main"
    /\ args \in ([argc : {3}, root : Roots, rootExists : BOOLEAN]
                    \cup [argc : {2}, root : {<<>>}, rootExists : {FALSE}])
    /\ args.rootExists => Norm(args.root) # <<>>
    /\ input \in Inputs
    /\ pak = [state |-> "closed", bytes |-> ContainerOf(input), pos |-> 0, eof |-> FALSE]
    /\ sav = [state |-> "closed", lines |-> OldSavLines, buffer |-> <<>>]
    /\ arena = NoArena
    /\ allocs = <<>>
    /\ header = [magic |-> <<>>, version |-> <<>>, flist |-> file_attr_list_init]
    /\ attrs = <<>>
    /\ fs = InitialFs(args.root, args.rootExists)
    /\ ex = NoLocals
    /\ rel = [arena |-> NoCount, pakFile |-> NoCount, filenameListSav |-> NoCount,
              hFile |-> NoCount]
    /\ env = [faults |-> 0, readBefore |-> FALSE, wroteBeyond |-> FALSE]
    /\ exitCode = NoExit

\* What the system may answer to a call that can fail for reasons of its own.
MayFail == IF env.faults < MaxFaults THEN {TRUE, FALSE} ELSE {FALSE}

Return(code) ==
    /\ pc' = "exited"
    /\ exitCode' = code

\* main without the test of is_dir_exist(argv[2]).
main_entry_without_dir_test ==
    /\ pc = "main"
    /\ IF args.argc # 3
       THEN Return(1)
       ELSE pc' = "resource_init" /\ exitCode' = exitCode
    /\ UNCHANGED <<args, input, pak, sav, arena, allocs, header, attrs, fs, ex, rel, env>>

\* main, lines 444 to 453: the checks before anything is acquired.
main_entry ==
    /\ pc = "main"
    /\ IF args.argc # 3
       THEN Return(1)
       ELSE IF is_dir_exist(args.root, fs)
            THEN Return(1)
            ELSE pc' = "resource_init" /\ exitCode' = exitCode
    /\ UNCHANGED <<args, input, pak, sav, arena, allocs, header, attrs, fs, ex, rel, env>>

\* resource_init returning at once where fopen fails, without its gotos.
resource_init_without_unwinding(failAt) ==
    IF failAt = 1
    THEN [ret |-> FALSE, arena |-> NoCount, pakFile |-> NoCount, filenameListSav |-> NoCount]
    ELSE IF failAt = 2
    THEN [ret |-> FALSE, arena |-> Acquire(NoCount), pakFile |-> NoCount,
          filenameListSav |-> NoCount]
    ELSE IF failAt = 3
    THEN [ret |-> FALSE, arena |-> Acquire(NoCount),
          pakFile |-> Acquire(NoCount), filenameListSav |-> NoCount]
    ELSE [ret |-> TRUE, arena |-> Acquire(NoCount), pakFile |-> Acquire(NoCount),
          filenameListSav |-> Acquire(NoCount)]

\* resource_init when its step failAt fails (0: none; 1: arena_create;
\* 2: fopen of the container; 3: fopen of the sidecar): what it returns and
\* how often it acquired and released each resource.
resource_init(failAt) ==
    IF failAt = 1
    THEN [ret |-> FALSE, arena |-> NoCount, pakFile |-> NoCount, filenameListSav |-> NoCount]
    ELSE IF failAt = 2
    THEN [ret |-> FALSE, arena |-> Release(Acquire(NoCount)), pakFile |-> NoCount,
          filenameListSav |-> NoCount]
    ELSE IF failAt = 3
    THEN [ret |-> FALSE, arena |-> Release(Acquire(NoCount)),
          pakFile |-> Release(Acquire(NoCount)), filenameListSav |-> NoCount]
    ELSE [ret |-> TRUE, arena |-> Acquire(NoCount), pakFile |-> Acquire(NoCount),
          filenameListSav |-> Acquire(NoCount)]

\* main, lines 455 to 458, with the call of resource_init.
main_resource_init ==
    /\ pc = "resource_init"
    /\ \E failAt \in (IF env.faults < MaxFaults THEN 0..3 ELSE {0}) :
         LET r == resource_init(failAt) IN
         /\ rel' = [rel EXCEPT !.arena = r.arena, !.pakFile = r.pakFile,
                               !.filenameListSav = r.filenameListSav]
         /\ env' = [env EXCEPT !.faults = @ + (IF failAt = 0 THEN 0 ELSE 1)]
         /\ IF r.ret
            THEN /\ arena' = arena_create(ArenaBlockSize)
                 /\ pak' = [pak EXCEPT !.state = "open"]
                 /\ sav' = [state |-> "open", lines |-> <<>>, buffer |-> <<>>]
                 /\ pc' = "parse_pak_header"
                 /\ exitCode' = exitCode
            ELSE /\ arena' = NoArena
                 /\ pak' = pak
                 /\ sav' = sav
                 /\ Return(1)
    /\ UNCHANGED <<args, input, allocs, header, attrs, fs, ex>>

\* parse_pak_header giving up, and main returning 1, when the magic or the
\* version read is not the expected one.
main_parse_header_enforcing ==
    /\ pc = "parse_pak_header"
    /\ \E r \in { With(parse_magic(pak, g), LAMBDA m :
                  With(parse_version(m.file, g), LAMBDA v :
                  [file |-> v.file, magic |-> m.magic, version |-> v.version]))
                  : g \in Garbage } :
         /\ pak' = r.file
         /\ header' = [magic |-> r.magic, version |-> r.version,
                       flist |-> file_attr_list_init]
         /\ IF r.magic = <<192, 74, 192, 186>> /\ r.version = <<0, 0, 0, 0>>
            THEN pc' = "parse_all_file_attrs" /\ exitCode' = exitCode
            ELSE pc' = "exited" /\ exitCode' = 1
    /\ UNCHANGED <<args, input, sav, arena, allocs, attrs, fs, ex, rel, env>>

\* pak_header_init, parse_magic and parse_version.
main_parse_header ==
    /\ pc = "parse_pak_header"
    /\ \E r \in { With(parse_magic(pak, g), LAMBDA m :
                  With(parse_version(m.file, g), LAMBDA v :
                  [file |-> v.file, magic |-> m.magic, version |-> v.version]))
                  : g \in Garbage } :
         /\ pak' = r.file
         /\ header' = [magic |-> r.magic, version |-> r.version,
                       flist |-> file_attr_list_init]
    /\ pc' = "parse_all_file_attrs"
    /\ UNCHANGED <<args, input, sav, arena, allocs, attrs, fs, ex, rel, env, exitCode>>

\* abort() in arena_create_new_block: the process ends there.
Abort ==
    /\ pc' = "aborted"
    /\ env' = [env EXCEPT !.faults = @ + 1]

\* One pass of the loop of parse_all_file_attrs, its test included.
parse_all_file_attrs ==
    /\ pc = "parse_all_file_attrs"
    /\ IF feof(pak)
       THEN /\ pc' = "save_file_name_list"
            /\ UNCHANGED <<pak, arena, allocs, header, attrs, env>>
       ELSE \E r \in {ParseOneAttr(pak, arena, header.flist, attrs, g) : g \in Garbage} :
            \E fail \in MayFail :
              IF r.needsBlock /\ fail
              THEN /\ Abort
                   /\ UNCHANGED <<pak, arena, allocs, header, attrs>>
              ELSE /\ pak' = r.file
                   /\ arena' = r.arena
                   /\ allocs' = allocs \o r.ptrs
                   /\ header' = [header EXCEPT !.flist = r.flist]
                   /\ attrs' = r.attrs
                   /\ env' = env
                   /\ pc' = IF r.end THEN "save_file_name_list" ELSE "parse_all_file_attrs"
    /\ UNCHANGED <<args, input, sav, fs, ex, rel, exitCode>>

\* save_file_name_list: one line per FileAttr met from flist.head, handed
\* to the stream, which keeps them in its buffer (they are a few hundred
\* bytes at most here, and nothing flushes the stream before fclose).
save_file_name_list ==
    /\ pc = "save_file_name_list"
    /\ sav' = [sav EXCEPT !.buffer = @ \o
                 [i \in 1..Len(Walk(attrs, header.flist.head, Len(attrs))) |->
                    LET a == attrs[Walk(attrs, header.flist.head, Len(attrs))[i]]
                    IN [name |-> CStr(a.fileName), size |-> FormatLd(a.fileSize)]]]
    /\ pc' = "extract_files"
    /\ UNCHANGED <<args, input, pak, arena, allocs, header, attrs, fs, ex, rel, env, exitCode>>

\* extract_files up to its loop: the working buffer is taken from the arena.
\* Whether abort() writes out the buffers of open streams is up to the
\* C library.
extract_files ==
    /\ pc = "extract_files"
    /\ \E fail \in MayFail :
         IF ArenaNeedsBlock(arena, ExtractBufSize) /\ fail
         THEN /\ Abort
              /\ sav' \in {sav, fflush(sav)}
              /\ UNCHANGED <<arena, allocs, ex>>
         ELSE LET m == arena_malloc(arena, ExtractBufSize) IN
              /\ arena' = m.arena
              /\ allocs' = Append(allocs, m.ptr)
              /\ ex' = [ex EXCEPT !.attr = header.flist.head]
              /\ env' = env
              /\ sav' = sav
              /\ pc' = "extract_one"
    /\ UNCHANGED <<args, input, pak, header, attrs, fs, rel, exitCode>>

\* parse_and_extract_one_file, lines 363 to 387, for the FileAttr a: the
\* path built, and what recursive_create_parent_dirs and CreateFile come to.
\* dirFault and fileFault make CreateDirectory and CreateFile fail for
\* reasons of the system's own; faults counts those that took effect.
OpenOutput(a, extractPath, f, before, dirFault, fileFault) ==
    With(build_complete_path(extractPath, a.fileName, before), LAMBDA bp :
    With(recursive_create_parent_dirs(bp.path, 1, f, dirFault), LAMBDA mk :
    With(CanCreateNew(bp.path, mk.fs), LAMBDA can :
    [path |-> bp.path,
     readsBefore |-> bp.readsBefore,
     writesBeyond |-> bp.lastIndex >= MAX_PATH,
     result |-> IF ~mk.ok THEN "dirs_failed"
                ELSE IF ~can \/ fileFault THEN "create_failed"
                ELSE "opened",
     fs |-> IF mk.ok /\ can /\ ~fileFault
            THEN [mk.fs EXCEPT !.files =
                     @ @@ (bp.path :> [data |-> <<>>, time |-> SystemTime])]
            ELSE mk.fs,
     faults |-> (IF mk.faulted THEN 1 ELSE 0)
                + (IF mk.ok /\ can /\ fileFault THEN 1 ELSE 0)])))

\* The record of how the handling of FileAttr attr ended.
Done(attr, path, result) ==
    Append(ex.done, [attr |-> attr, path |-> path, result |-> result])

\* parse_and_extract_one_file up to its copy loop, for the next FileAttr of
\* the loop of extract_files.
extract_open ==
    /\ pc = "extract_one"
    /\ ex.attr # NULL
    /\ \E r \in { OpenOutput(attrs[ex.attr], args.root, fs, b, df, ff) :
                    b \in {Backslash, 0}, df \in BOOLEAN, ff \in BOOLEAN } :
         /\ env.faults + r.faults <= MaxFaults
         /\ env' = [env EXCEPT !.faults = @ + r.faults,
                               !.readBefore = @ \/ r.readsBefore,
                               !.wroteBeyond = @ \/ r.writesBeyond]
         /\ \/ /\ r.writesBeyond
               /\ pc' = "crashed"
               /\ UNCHANGED <<fs, ex, rel>>
            \/ /\ fs' = r.fs
               /\ IF r.result = "opened"
                  THEN /\ ex' = [ex EXCEPT !.fileSize = attrs[ex.attr].fileSize,
                                           !.hFile = r.path, !.path = r.path]
                       /\ rel' = [rel EXCEPT !.hFile = Acquire(@)]
                       /\ pc' = "copy_loop"
                  ELSE /\ ex' = [ex EXCEPT !.attr = attrs[ex.attr].next,
                                           !.path = r.path,
                                           !.done = Done(ex.attr, r.path, r.result)]
                       /\ rel' = rel
                       /\ pc' = "extract_one"
    /\ UNCHANGED <<args, input, pak, sav, arena, allocs, header, attrs, exitCode>>

\* The test of the copy loop and, when it passes, fread and decode_bytes.
copy_read ==
    /\ pc = "copy_loop"
    /\ IF ~U32IsZero(ex.fileSize)
       THEN LET r == fread(pak, U32Min(ex.fileSize, ExtractBufSize)) IN
            /\ pak' = r.file
            /\ ex' = [ex EXCEPT !.readLen = r.count,
                                !.buf = decode_bytes(r.data, r.count)]
            /\ pc' = "WriteFile"
       ELSE /\ pc' = "SetFileTime"
            /\ UNCHANGED <<pak, ex>>
    /\ UNCHANGED <<args, input, sav, arena, allocs, header, attrs, fs, rel, env, exitCode>>

\* tidy_up, with the loop of extract_files given up after a failure.
TidyUp_ending_walk(result) ==
    /\ ex' = [ex EXCEPT !.attr = IF result = "extracted" THEN attrs[ex.attr].next
                                 ELSE NULL,
                        !.hFile = NoHandle,
                        !.done = Done(ex.attr, ex.path, result)]
    /\ rel' = [rel EXCEPT !.hFile = Release(@)]
    /\ pc' = "extract_one"

\* tidy_up, and the step of the loop of extract_files to the next FileAttr.
TidyUp(result) ==
    /\ ex' = [ex EXCEPT !.attr = attrs[ex.attr].next, !.hFile = NoHandle,
                        !.done = Done(ex.attr, ex.path, result)]
    /\ rel' = [rel EXCEPT !.hFile = Release(@)]
    /\ pc' = "extract_one"

\* WriteFile of the bytes read, a failure leaving the loop by a break.
copy_write_breaking ==
    /\ pc = "WriteFile"
    /\ \E fail \in MayFail :
         IF fail
         THEN /\ pc' = "SetFileTime"
              /\ env' = [env EXCEPT !.faults = @ + 1]
              /\ UNCHANGED <<fs, ex, rel>>
         ELSE /\ fs' = [fs EXCEPT !.files[ex.hFile].data = @ \o ex.buf]
              /\ ex' = [ex EXCEPT !.fileSize = U32Minus(@, ex.readLen)]
              /\ pc' = "copy_loop"
              /\ UNCHANGED <<rel, env>>
    /\ UNCHANGED <<args, input, pak, sav, arena, allocs, header, attrs, exitCode>>

\* WriteFile of the bytes read, and the rest of the loop body.
copy_write ==
    /\ pc = "WriteFile"
    /\ \E fail \in MayFail :
         IF fail
         THEN /\ TidyUp("write_failed")
              /\ env' = [env EXCEPT !.faults = @ + 1]
              /\ fs' = fs
         ELSE /\ fs' = [fs EXCEPT !.files[ex.hFile].data = @ \o ex.buf]
              /\ ex' = [ex EXCEPT !.fileSize = U32Minus(@, ex.readLen)]
              /\ pc' = "copy_loop"
              /\ UNCHANGED <<rel, env>>
    /\ UNCHANGED <<args, input, pak, sav, arena, allocs, header, attrs, exitCode>>

\* SetFileTime after the loop, then tidy_up.
set_file_time ==
    /\ pc = "SetFileTime"
    /\ \E fail \in MayFail :
         IF fail
         THEN /\ TidyUp("time_failed")
              /\ env' = [env EXCEPT !.faults = @ + 1]
              /\ fs' = fs
         ELSE /\ TidyUp("extracted")
              /\ fs' = [fs EXCEPT !.files[ex.hFile].time = attrs[ex.attr].lastWriteTime]
              /\ env' = env
    /\ UNCHANGED <<args, input, pak, sav, arena, allocs, header, attrs, exitCode>>

\* resource_free: how often each resource is released.
resource_free(r) ==
    [r EXCEPT !.pakFile = Release(@), !.filenameListSav = Release(@),
              !.arena = Release(@)]

\* main returning 1 when a record was not extracted.
main_finish_strict ==
    /\ pc = "extract_one"
    /\ ex.attr = NULL
    /\ rel' = resource_free(rel)
    /\ pak' = [pak EXCEPT !.state = "closed"]
    /\ sav' = [fflush(sav) EXCEPT !.state = "closed"]
    /\ arena' = NoArena
    /\ Return(IF \E i \in 1..Len(ex.done) : ex.done[i].result # "extracted" THEN 1 ELSE 0)
    /\ UNCHANGED <<args, input, allocs, header, attrs, fs, ex, env>>

\* main, lines 469 and 470, once the loop of extract_files has ended.
main_finish ==
    /\ pc = "extract_one"
    /\ ex.attr = NULL
    /\ rel' = resource_free(rel)
    /\ pak' = [pak EXCEPT !.state = "closed"]
    /\ sav' = [fflush(sav) EXCEPT !.state = "closed"]
    /\ arena' = NoArena
    /\ Return(0)
    /\ UNCHANGED <<args, input, allocs, header, attrs, fs, ex, env>>

Next ==
    \/ main_entry
    \/ main_resource_init
    \/ main_parse_header
    \/ parse_all_file_attrs
    \/ save_file_name_list
    \/ extract_files
    \/ extract_open
    \/ copy_read
    \/ copy_write
    \/ set_file_time
    \/ main_finish

Spec == Init /\ [][Next]_vars

\* The process keeps running as long as it has a step to take.
FairSpec == Spec /\ WF_vars(Next)

(***************************************************************************)
(* The arena on its own: arena_create followed by any calls of             *)
(* arena_malloc with the sizes the program asks for, which are             *)
(* sizeof(FileAttr), a name's length + 1 and the working buffer's size.    *)
(* The block size is the program's, 8192, or a small one, below some of    *)
(* the sizes asked for.                                                    *)
(***************************************************************************)
NameLens == {0, 7, 255}

ArenaBlockSizes == {ArenaBlockSize, 64}

MallocSizes == {SizeofFileAttr, ExtractBufSize} \cup {len + 1 : len \in NameLens}

InitArena ==
    /\ pc = "arena"
    /\ args = [argc |-> 3, root |-> <<100>>, rootExists |-> FALSE]
    /\ input = [fmt |-> "flagged", files |-> <<>>, cut |-> 0]
    /\ pak = [state |-> "closed", bytes |-> <<>>, pos |-> 0, eof |-> FALSE]
    /\ sav = [state |-> "closed", lines |-> <<>>, buffer |-> <<>>]
    /\ \E blockSize \in ArenaBlockSizes : arena = arena_create(blockSize)
    /\ allocs = <<>>
    /\ header = [magic |-> <<>>, version |-> <<>>, flist |-> file_attr_list_init]
    /\ attrs = <<>>
    /\ fs = InitialFs(<<100>>, FALSE)
    /\ ex = NoLocals
    /\ rel = [arena |-> Acquire(NoCount), pakFile |-> NoCount,
              filenameListSav |-> NoCount, hFile |-> NoCount]
    /\ env = [faults |-> 0, readBefore |-> FALSE, wroteBeyond |-> FALSE]
    /\ exitCode = NoExit

\* One call of arena_malloc; where it needs a new block and malloc has
\* none to give, arena_create_new_block aborts.
call_arena_malloc ==
    /\ pc = "arena"
    /\ Len(allocs) < MaxMallocs
    /\ \E size \in MallocSizes, fail \in BOOLEAN :
         IF ArenaNeedsBlock(arena, size) /\ fail
         THEN /\ Abort
              /\ UNCHANGED <<arena, allocs>>
         ELSE LET m == arena_malloc(arena, size) IN
              /\ arena' = m.arena
              /\ allocs' = Append(allocs, m.ptr)
              /\ UNCHANGED <<pc, env>>
    /\ UNCHANGED <<args, input, pak, sav, header, attrs, fs, ex, rel, exitCode>>

NextArena == call_arena_malloc

SpecArena == InitArena /\ [][NextArena]_vars

(***************************************************************************)
(* The copy loop on its own: parse_and_extract_one_file from its loop on,  *)
(* for one record whose output file d\a has just been created and whose    *)
(* payload is in the stream in full, after input.start bytes of record     *)
(* table and before input.rest bytes of other payloads.                    *)
(***************************************************************************)
CopySizes ==
    {0, 1, ExtractBufSize - 1, ExtractBufSize, ExtractBufSize + 1, 2 * ExtractBufSize + 1}

\* A payload of size bytes.
PayloadOf(size, k) == [i \in 1..size |-> (i * k + 3) % 256]

CopyInputs == [size : CopySizes, k : {1, 7}, start : {0, 5}, rest : {0, 3}]

CopyPath == <<100, Backslash, 97>>

InitCopy ==
    /\ pc = "copy_loop"
    /\ args = [argc |-> 3, root |-> <<100>>, rootExists |-> FALSE]
    /\ \E in \in CopyInputs :
         /\ input = in
         /\ pak = [state |-> "open",
                   bytes |-> xor_encode([i \in 1..in.start |-> HeaderEndFlag]
                                       \o PayloadOf(in.size, in.k)
                                       \o [i \in 1..in.rest |-> 65]),
                   pos |-> in.start, eof |-> FALSE]
    /\ sav = [state |-> "open", lines |-> <<>>,
              buffer |-> <<[name |-> <<97>>, size |-> input.size]>>]
    /\ arena = arena_malloc(arena_malloc(arena_malloc(arena_create(ArenaBlockSize),
                    SizeofFileAttr).arena, 2).arena, ExtractBufSize).arena
    /\ allocs = <<>>
    /\ header = [magic |-> ExpectedMagic, version |-> ExpectedVersion,
                 flist |-> [head |-> 1, tail |-> 1, length |-> 1]]
    /\ attrs = <<[fileName |-> <<97>>, fileSize |-> U32(input.size),
                  lastWriteTime |-> Time1, next |-> NULL]>>
    /\ fs = [dirs |-> {<<100>>},
             files |-> (CopyPath :> [data |-> <<>>, time |-> SystemTime])]
    /\ ex = [NoLocals EXCEPT !.attr = 1, !.fileSize = U32(input.size),
                             !.hFile = CopyPath, !.path = CopyPath]
    /\ rel = [arena |-> Acquire(NoCount), pakFile |-> Acquire(NoCount),
              filenameListSav |-> Acquire(NoCount), hFile |-> Acquire(NoCount)]
    /\ env = [faults |-> 0, readBefore |-> FALSE, wroteBeyond |-> FALSE]
    /\ exitCode = NoExit

NextCopy == copy_read \/ copy_write \/ set_file_time

SpecCopy == InitCopy /\ [][NextCopy]_vars

(***************************************************************************)
(* The codec on its own: decode_bytes called, up to MaxDecodes times, on   *)
(* a buffer, each time with a length up to the buffer's.  ex.src is the    *)
(* buffer as it was at first, ex.lens the lengths of the calls made.       *)
(***************************************************************************)
CodecSample == {0, 8, 128, 247, 255}

CodecBufs ==
    {<<>>} \cup {<<b>> : b \in 0..255} \cup [1..2 -> CodecSample] \cup [1..3 -> {8, 247}]

InitCodec ==
    /\ pc = "codec"
    /\ args = [argc |-> 3, root |-> <<100>>, rootExists |-> FALSE]
    /\ input = [fmt |-> "flagged", files |-> <<>>, cut |-> 0]
    /\ pak = [state |-> "closed", bytes |-> <<>>, pos |-> 0, eof |-> FALSE]
    /\ sav = [state |-> "closed", lines |-> <<>>, buffer |-> <<>>]
    /\ arena = NoArena
    /\ allocs = <<>>
    /\ header = [magic |-> <<>>, version |-> <<>>, flist |-> file_attr_list_init]
    /\ attrs = <<>>
    /\ fs = InitialFs(<<100>>, FALSE)
    /\ \E s \in CodecBufs : ex = [src |-> s, buf |-> s, lens |-> <<>>]
    /\ rel = [arena |-> NoCount, pakFile |-> NoCount, filenameListSav |-> NoCount,
              hFile |-> NoCount]
    /\ env = [faults |-> 0, readBefore |-> FALSE, wroteBeyond |-> FALSE]
    /\ exitCode = NoExit

\* decode_bytes(buf, buf, len), in place as at every call site.
call_decode_bytes ==
    /\ pc = "codec"
    /\ Len(ex.lens) < MaxDecodes
    /\ \E len \in 0..Len(ex.buf) :
         ex' = [ex EXCEPT !.buf = decode_bytes(@, len), !.lens = Append(@, len)]
    /\ UNCHANGED <<pc, args, input, pak, sav, arena, allocs, header, attrs, fs, rel,
                   env, exitCode>>

NextCodec == call_decode_bytes

SpecCodec == InitCodec /\ [][NextCodec]_vars

(***************************************************************************)
(* The program run twice from the same start, on a container with the      *)
(* expected magic and version and then on the same container with other    *)
(* bytes in their place.  The runs are those in which nothing is left to   *)
(* chance: no call fails for a reason of the system's own, the record      *)
(* table is whole, so that no memory is read that was never written, and   *)
(* the extraction root is neither the empty string nor so long that        *)
(* build_complete_path writes beyond path.  env.first is what the first    *)
(* run came to.                                                            *)
(***************************************************************************)
\* Decoded magic and version bytes other than the expected ones.
OtherHeaders ==
    { <<0, 0, 0, 0, 0, 0, 0, 0>>,
      ExpectedMagic \o <<1, 0, 0, 0>>,
      <<128, 128, 128, 128, 128, 128, 128, 247>> }

\* The container bytes with hdr, encoded, in the place of magic and version.
WithHeader(bytes, hdr) ==
    xor_encode(hdr) \o SubSeq(bytes, Len(hdr) + 1, Len(bytes))

NoRun == [pc |-> "none"]

\* The copy loop at the end of the stream with bytes still to copy, once a
\* pass has read nothing: every further pass leaves it as it is.
Stuck == pc = "copy_loop" /\ pak.eof /\ ~U32IsZero(ex.fileSize) /\ ex.readLen = 0

\* The run has come to its end, or to where it stays for ever.
Ended == pc \in {"exited", "aborted", "crashed"} \/ Stuck

\* What a run has come to: everything but the magic and version bytes of
\* the stream and of the header.
RunResult ==
    [pc |-> pc, exitCode |-> exitCode, fs |-> fs, sav |-> sav,
     pos |-> pak.pos, eof |-> pak.eof, state |-> pak.state,
     flist |-> header.flist, attrs |-> attrs, arena |-> arena, allocs |-> allocs,
     ex |-> ex, rel |-> rel, wroteBeyond |-> env.wroteBeyond]

TwiceInputs ==
    { in \in Inputs : /\ in.fmt = "flagged"
                      /\ Len(ContainerOf(in)) >= Len(TableOf(in.fmt, in.files)) }

InitTwice ==
    /\ pc = "main"
    /\ args \in ([argc : {3}, root : Roots \ {<<>>, LongRoot}, rootExists : BOOLEAN]
                    \cup [argc : {2}, root : {<<>>}, rootExists : {FALSE}])
    /\ \E in \in TwiceInputs :
          /\ input = in
          /\ pak = [state |-> "closed", bytes |-> ContainerOf(in), pos |-> 0,
                    eof |-> FALSE]
    /\ sav = [state |-> "closed", lines |-> OldSavLines, buffer |-> <<>>]
    /\ arena = NoArena
    /\ allocs = <<>>
    /\ header = [magic |-> <<>>, version |-> <<>>, flist |-> file_attr_list_init]
    /\ attrs = <<>>
    /\ fs = InitialFs(args.root, args.rootExists)
    /\ ex = NoLocals
    /\ rel = [arena |-> NoCount, pakFile |-> NoCount, filenameListSav |-> NoCount,
              hFile |-> NoCount]
    /\ env = [faults |-> MaxFaults, readBefore |-> FALSE, wroteBeyond |-> FALSE,
              first |-> NoRun]
    /\ exitCode = NoExit

\* main started again as the first time, on the container with other magic
\* and version bytes.
main_again ==
    /\ Ended
    /\ env.first = NoRun
    /\ \E hdr \in OtherHeaders :
          pak' = [state |-> "closed", bytes |-> WithHeader(ContainerOf(input), hdr),
                  pos |-> 0, eof |-> FALSE]
    /\ env' = [faults |-> MaxFaults, readBefore |-> FALSE, wroteBeyond |-> FALSE,
               first |-> RunResult]
    /\ pc' = "main"
    /\ sav' = [state |-> "closed", lines |-> OldSavLines, buffer |-> <<>>]
    /\ arena' = NoArena
    /\ allocs' = <<>>
    /\ header' = [magic |-> <<>>, version |-> <<>>, flist |-> file_attr_list_init]
    /\ attrs' = <<>>
    /\ fs' = InitialFs(args.root, args.rootExists)
    /\ ex' = NoLocals
    /\ rel' = [arena |-> NoCount, pakFile |-> NoCount, filenameListSav |-> NoCount,
               hFile |-> NoCount]
    /\ exitCode' = NoExit
    /\ UNCHANGED <<args, input>>

NextTwice == Next \/ main_again

SpecTwice == InitTwice /\ [][NextTwice]_vars

(***************************************************************************)
(* Properties of the arena.                                                *)
(***************************************************************************)
RECURSIVE SumOver(_, _)
SumOver(blocks, field) ==
    IF blocks = <<>> THEN 0 ELSE Head(blocks)[field] + SumOver(Tail(blocks), field)

\* C7: after arena_create and any calls of arena_malloc with the sizes the
\* program asks for, every block has used <= capacity, and so the used
\* bytes of all blocks together never exceed their capacities together.
C7_PoolCapacity ==
    arena # NoArena =>
        /\ \A b \in 1..Len(arena.blocks) :
              arena.blocks[b].used <= arena.blocks[b].capacity
        /\ SumOver(arena.blocks, "used") <= SumOver(arena.blocks, "capacity")

\* A full block beside one partly used, after at least three calls.
C7_Witness ==
    /\ arena # NoArena
    /\ Len(allocs) >= 3
    /\ \E b, c \in 1..Len(arena.blocks) :
          /\ arena.blocks[b].used = arena.blocks[b].capacity
          /\ arena.blocks[c].used > 0
          /\ arena.blocks[c].used < arena.blocks[c].capacity

SpansDisjoint ==
    \A i, j \in 1..Len(allocs) :
        (i < j /\ allocs[i].block = allocs[j].block) =>
            \/ allocs[i].off + allocs[i].size <= allocs[j].off
            \/ allocs[j].off + allocs[j].size <= allocs[i].off

SpansInside ==
    \A i \in 1..Len(allocs) :
        /\ allocs[i].block \in 1..Len(arena.blocks)
        /\ allocs[i].off >= 0
        /\ allocs[i].off + allocs[i].size <= arena.blocks[allocs[i].block].capacity

\* A step leaves every block there is with its capacity and with no less
\* used than before, and every span returned where it was.
SpansStay ==
    (arena # NoArena /\ arena' # NoArena) =>
        /\ Len(arena'.blocks) >= Len(arena.blocks)
        /\ \A b \in 1..Len(arena.blocks) :
              /\ arena'.blocks[b].used >= arena.blocks[b].used
              /\ arena'.blocks[b].capacity = arena.blocks[b].capacity
        /\ \A i \in 1..Len(allocs) : allocs'[i] = allocs[i]

\* C8: the spans returned by any two calls of arena_malloc are disjoint,
\* each lies inside the data area of one block, and a span once returned
\* stays where it is: no block's used counter ever decreases.
C8_PoolNonOverlap ==
    /\ [](arena # NoArena => (SpansDisjoint /\ SpansInside))
    /\ [][SpansStay]_vars

\* Two spans in one block and a third in another.
C8_Witness ==
    \E i, j, k \in 1..Len(allocs) :
        /\ i < j
        /\ allocs[i].block = allocs[j].block
        /\ allocs[k].block # allocs[i].block

(***************************************************************************)
(* Properties of a run of main.                                            *)
(***************************************************************************)
\* The record table of the container is whole and in the layout that
\* parse_all_file_attrs reads.
TableWhole ==
    /\ input.fmt = "flagged"
    /\ Len(pak.bytes) >= Len(TableOf(input.fmt, input.files))

\* Every record declares the size of the payload that is there for it.
SizesTrue == \A i \in 1..Len(input.files) : input.files[i].over = 0

ParsingDone ==
    pc \in {"save_file_name_list", "extract_files", "extract_one", "copy_loop",
            "WriteFile", "SetFileTime", "exited"}

\* The FileAttr objects in the order in which head -> next -> ... gives them.
Collected == Walk(attrs, header.flist.head, Len(attrs) + 1)

\* C6: whatever file_attr_list_add calls the parser has made, flist.length
\* is the number of records appended and the walk from head along next
\* meets them, up to tail, in the order in which they were appended, which
\* for a whole record table is the order of the records in the container.
C6_CollectionOrder ==
    /\ header.flist.length = Len(attrs)
    /\ Collected = [i \in 1..Len(attrs) |-> i]
    /\ header.flist.tail = Len(attrs)
    /\ (header.flist.head = NULL) = (attrs = <<>>)
    /\ (TableWhole /\ ParsingDone /\ exitCode # 1) =>
          /\ Len(Collected) = Len(input.files)
          /\ \A i \in 1..Len(Collected) :
                attrs[Collected[i]].fileName = input.files[i].name

\* Two records with different names have been appended.
C6_Witness ==
    /\ pc = "save_file_name_list"
    /\ TableWhole
    /\ header.flist.length = 2
    /\ attrs[1].fileName # attrs[2].fileName

NothingAcquired ==
    rel = [arena |-> NoCount, pakFile |-> NoCount, filenameListSav |-> NoCount,
           hFile |-> NoCount]

\* C9: when the extraction root is there as main starts, main returns 1
\* and the container is never opened, the sidecar is neither created nor
\* truncated, no arena is created and no directory or file is made.
C9_RefusalOnExistingRoot ==
    args.rootExists =>
        /\ pc \in {"main", "exited"}
        /\ pc = "exited" => exitCode = 1
        /\ pak.state = "closed" /\ pak.pos = 0
        /\ sav = [state |-> "closed", lines |-> OldSavLines, buffer |-> <<>>]
        /\ arena = NoArena
        /\ NothingAcquired
        /\ fs = InitialFs(args.root, TRUE)

C9_Witness ==
    args.argc = 3 /\ args.rootExists /\ pc = "exited"

\* C10: main returns 1 exactly when argc is not 3, the extraction root is
\* there already, or resource_init fails (then the sidecar was never
\* opened); every other run that returns, returns 0, also when records
\* were skipped.
C10_ExitCodes ==
    pc = "exited" =>
        exitCode = IF \/ args.argc # 3
                      \/ args.rootExists
                      \/ rel.filenameListSav.acq = 0
                   THEN 1 ELSE 0

\* A run that returns 0 having skipped a record.
C10_Witness ==
    /\ pc = "exited"
    /\ exitCode = 0
    /\ \E i \in 1..Len(ex.done) : ex.done[i].result \in {"dirs_failed", "create_failed"}

Resources == {"arena", "pakFile", "filenameListSav", "hFile"}

\* C5 as claimed: on every path by which the process ends, the abort in
\* arena_create_new_block included, every resource acquired has been
\* released exactly once, and none is released twice.
C5_ReleasedOnEveryExit ==
    /\ \A r \in Resources : rel[r].rls <= rel[r].acq
    /\ pc \in {"exited", "aborted"} => \A r \in Resources : rel[r].rls = rel[r].acq

\* C5 as amended: every resource is released at most as often as acquired;
\* when main returns, each one acquired has been released exactly once;
\* when arena_create_new_block aborts, the arena and the two streams are
\* open and none of them has been released.
C5_ReleasedOnReturn ==
    /\ \A r \in Resources : rel[r].rls <= rel[r].acq
    /\ \A r \in Resources \ {"hFile"} : rel[r].acq <= 1
    /\ rel.hFile.acq - rel.hFile.rls \in {0, 1}
    /\ pc = "exited" => \A r \in Resources : rel[r].rls = rel[r].acq
    /\ pc = "aborted" =>
          /\ \A r \in Resources \ {"hFile"} : rel[r].acq = 1 /\ rel[r].rls = 0
          /\ rel.hFile.rls = rel.hFile.acq

\* main has returned 0 having opened and closed two output files.
C5_Witness ==
    /\ pc = "exited"
    /\ exitCode = 0
    /\ rel.hFile.rls = 2
    /\ rel.arena.rls = 1

\* For every record handled, how its handling ended, in the order of the
\* container's records.
HandledInOrder == \A i \in 1..Len(ex.done) : ex.done[i].attr = i

\* C1: when the destination of some records cannot be created, they are
\* skipped, and the file written for every other record holds exactly the
\* decoded bytes of that record's own payload.
C1_PerRecordIsolation ==
    ( /\ pc = "exited"
      /\ exitCode = 0
      /\ TableWhole
      /\ input.cut = 0 /\ SizesTrue
      /\ ~env.readBefore /\ ~env.wroteBeyond
      /\ \A i \in 1..Len(ex.done) :
            ex.done[i].result \in {"extracted", "dirs_failed", "create_failed"} )
    => /\ HandledInOrder
       /\ Len(ex.done) = Len(input.files)
       /\ \A i \in 1..Len(ex.done) :
             ex.done[i].result = "extracted" =>
                \/ fs.files[ex.done[i].path].data = input.files[i].data
                \/ \E k \in 1..(i - 1) :
                      ex.done[k].path = ex.done[i].path /\ ex.done[k].result = "extracted"

\* C2: once the container stream is exhausted while bytes of a record
\* remain to be copied, the copy ends and the process comes to its end.
C2_TruncatedCopyEnds ==
    (pc = "copy_loop" /\ pak.eof /\ ~U32IsZero(ex.fileSize))
        ~> (pc \in {"exited", "aborted", "crashed"})

\* C4: no step reads in front of the extraction-root string, and
\* build_complete_path never writes at or beyond index MAX_PATH of path.
C4_NoOutOfBounds ==
    /\ ~env.readBefore
    /\ ~env.wroteBeyond

\* The destination of a file named name under root.
JoinPath(root, name) ==
    root \o (IF root[Len(root)] # Backslash THEN <<Backslash>> ELSE <<>>) \o name

DistinctNames(files) ==
    \A i, j \in 1..Len(files) : i # j => files[i].name # files[j].name

\* The files the container was built from, by destination.
Originals ==
    [p \in {JoinPath(args.root, input.files[i].name) : i \in 1..Len(input.files)} |->
        LET i == CHOOSE i \in 1..Len(input.files) :
                    JoinPath(args.root, input.files[i].name) = p
        IN [data |-> input.files[i].data, time |-> input.files[i].time]]

\* A whole container in layout fmt, of files with distinct names, run on
\* a root given by name, with every call of the system succeeding so far
\* and every path fitting its buffer: only files of the container's names
\* are ever made, and when main has returned 0 the files are the originals,
\* in name, content and last-write time.
RoundTrip(fmt) ==
    ( /\ input.fmt = fmt
      /\ input.cut = 0 /\ SizesTrue
      /\ DistinctNames(input.files)
      /\ args.argc = 3 /\ args.root # <<>>
      /\ ~env.wroteBeyond
      /\ env.faults = 0
      /\ \A i \in 1..Len(ex.done) : ex.done[i].result = "extracted" )
    => /\ DOMAIN fs.files \subseteq DOMAIN Originals
       /\ (pc = "exited" /\ exitCode = 0) => fs.files = Originals

ListingDue ==
    \/ pc \in {"extract_files", "extract_one", "copy_loop", "WriteFile",
               "SetFileTime", "crashed"}
    \/ pc = "exited" /\ exitCode = 0

\* Line l of the sidecar is the line `name, size` of the FileAttr a.
IsLineOf(l, a) ==
    /\ l.name = CStr(a.fileName)
    /\ l.size >= 0
    /\ U32(l.size) = a.fileSize

\* C11: once save_file_name_list has returned, the sidecar file holds one
\* line `name, size` for every record of the collection, in the order of
\* the collection, and no other line, whatever happens to the records
\* during extraction.
C11_SidecarListing ==
    ListingDue =>
        /\ Len(sav.lines) = Len(Collected)
        /\ \A i \in 1..Len(Collected) : IsLineOf(sav.lines[i], attrs[Collected[i]])

(***************************************************************************)
(* Properties of the codec.                                                *)
(***************************************************************************)
\* b XOR 0xF7 without the operator: 0xF7 is 0xFF without bit 3, so every
\* bit of b but bit 3 is inverted.
XorF7(b) ==
    LET c == 255 - b IN IF (c \div 8) % 2 = 1 THEN c - 8 ELSE c + 8

\* How many of the calls made so far reached byte i of the buffer.
TimesDecoded(i) == Cardinality({k \in 1..Len(ex.lens) : ex.lens[k] >= i})

\* C12: decode_one_byte is b XOR 0xF7, a byte again, and its own inverse,
\* and decode_bytes does this to each of the first len bytes on its own:
\* after any calls, a byte is what it was when an even number of calls
\* reached it and its XOR with 0xF7 otherwise, whatever its neighbours.
C12_CodecInvolution ==
    /\ \A b \in 0..255 :
          /\ decode_one_byte(b) \in 0..255
          /\ decode_one_byte(b) = XorF7(b)
          /\ decode_one_byte(decode_one_byte(b)) = b
    /\ Len(ex.buf) = Len(ex.src)
    /\ \A i \in 1..Len(ex.buf) :
          ex.buf[i] = IF TimesDecoded(i) % 2 = 0 THEN ex.src[i] ELSE XorF7(ex.src[i])

\* Two calls over the whole of a buffer of two different bytes.
C12_Witness ==
    /\ pc = "codec"
    /\ ex.src = <<247, 8>>
    /\ ex.lens = <<2, 2>>
    /\ ex.buf = ex.src

(***************************************************************************)
(* Properties of the header parser.                                        *)
(***************************************************************************)
\* The decoded bytes of the stream from index from to index to.
Decoded(from, to) == [i \in 1..(to - from + 1) |-> decode_one_byte(pak.bytes[from + i - 1])]

\* A pass of the loop of parse_all_file_attrs that finds the stream long
\* enough, when the length byte of a record is its byte number k: the end
\* flag is taken alone and ends the loop; otherwise the record's bytes are
\* taken one after the other, each once, and make up the FileAttr appended.
RecordStep(k) ==
    (pc = "parse_all_file_attrs" /\ ~feof(pak) /\ pc' # "aborted"
        /\ pak.pos < Len(pak.bytes)) =>
    IF decode_one_byte(pak.bytes[pak.pos + 1]) = HeaderEndFlag
    THEN /\ pak'.pos = pak.pos + 1
         /\ pc' = "save_file_name_list"
         /\ attrs' = attrs /\ header' = header
    ELSE pak.pos + k <= Len(pak.bytes) =>
         LET L == decode_one_byte(pak.bytes[pak.pos + k])
             name == pak.pos + k
             size == name + L
             time == size + BYTES_OF_FILE_SIZE
             end == time + BYTES_OF_FILE_TIME
         IN end <= Len(pak.bytes) =>
              /\ pak'.pos = end
              /\ pc' = "parse_all_file_attrs"
              /\ Len(attrs') = Len(attrs) + 1
              /\ header'.flist.tail = Len(attrs')
              /\ attrs'[Len(attrs')].fileName = Decoded(name + 1, size)
              /\ attrs'[Len(attrs')].fileSize = U32Of(Decoded(size + 1, time))
              /\ attrs'[Len(attrs')].lastWriteTime = Decoded(time + 1, end)

\* The loop has ended on a whole record table of layout fmt with the cursor
\* on the first payload byte.
DoneAtPayload(fmt) ==
    (pc = "save_file_name_list" /\ input.fmt = fmt
        /\ Len(pak.bytes) >= Len(TableOf(fmt, input.files))) =>
    /\ pak.pos = Len(TableOf(fmt, input.files))
    /\ header.flist.length = Len(input.files)

\* C13 as claimed: the byte that is not the end flag is itself the length L
\* of the name, a record taking 1 + L + 12 bytes of the stream.
C13_RecordSyntaxAsClaimed == [][RecordStep(1)]_vars /\ [](DoneAtPayload("plain"))

\* C13 as amended: the byte that is not the end flag is only looked at; the
\* byte after it is the length L of the name, then come the L bytes of the
\* name, 4 of the size and 8 of the time, a record taking 2 + L + 12 bytes of
\* the stream, none read twice and none skipped; and when the end flag of a
\* whole table is met the cursor is on the first payload byte.
C13_RecordSyntax == [][RecordStep(2)]_vars /\ [](DoneAtPayload("flagged"))

\* The records s\c and b have been read and the end flag met.
C13_Witness ==
    /\ pc = "save_file_name_list"
    /\ TableWhole
    /\ Len(attrs) = 2
    /\ attrs[1].fileName = <<115, 92, 99>>
    /\ attrs[2].fileName = <<98>>
    /\ pak.pos = Len(TableOf(input.fmt, input.files))

\* The index in the stream of the last byte of record i of the container.
RecordEnd(i) ==
    Len(ExpectedMagic) + Len(ExpectedVersion)
        + Len(Concat([j \in 1..i |-> RecordBytes(input.fmt, input.files[j])]))

\* The records of the container that are in the stream with all their bytes.
CompleteRecords == {i \in 1..Len(input.files) : RecordEnd(i) <= Len(pak.bytes)}

\* C14: when the loop of parse_all_file_attrs has ended, by the end flag or
\* by the end of the stream, the collection holds the records that are in
\* the stream with all their bytes, in order, and nothing else.
C14_ImplicitEnd ==
    (ParsingDone /\ input.fmt = "flagged" /\ (pc = "exited" => exitCode = 0)) =>
        /\ Len(attrs) = Cardinality(CompleteRecords)
        /\ \A i \in 1..Len(attrs) :
              /\ i \in CompleteRecords
              /\ attrs[i].fileName = input.files[i].name
              /\ attrs[i].lastWriteTime = input.files[i].time

(***************************************************************************)
(* Properties of the copy loop.                                            *)
(***************************************************************************)
\* The bytes of the stream taken for the record so far.
Consumed == pak.pos - input.start

\* C15: for a record whose size bytes are in the stream and whose writes
\* succeed, every pass asks for min(remaining, 8192) bytes and gets them,
\* the remaining count goes down by as much and never below 0, and what has
\* been written is the decode of the bytes taken so far, in their order;
\* the loop ends at remaining = 0 with exactly size bytes taken.
C15_ChunkedCopy ==
    /\ ex.fileSize.hi = 0 /\ ex.fileSize.lo <= input.size
    /\ Consumed <= input.size
    /\ pc = "copy_loop" =>
          /\ ex.fileSize.lo = input.size - Consumed
          /\ fs.files[CopyPath].data = Decoded(input.start + 1, pak.pos)
    /\ pc = "WriteFile" =>
          /\ ex.readLen = Min(ex.fileSize.lo, ExtractBufSize)
          /\ ex.readLen > 0
          /\ ex.fileSize.lo - ex.readLen = input.size - Consumed
          /\ ex.buf = Decoded(pak.pos - ex.readLen + 1, pak.pos)
          /\ fs.files[CopyPath].data = Decoded(input.start + 1, pak.pos - ex.readLen)
    /\ pc = "SetFileTime" =>
          /\ U32IsZero(ex.fileSize)
          /\ Consumed = input.size
          /\ fs.files[CopyPath].data = Decoded(input.start + 1, input.start + input.size)
    /\ (pc = "extract_one" /\ ex.done[1].result # "write_failed") =>
          /\ Consumed = input.size
          /\ fs.files[CopyPath].data = Decoded(input.start + 1, input.start + input.size)
    /\ ~pak.eof

\* A record of two buffers and one byte has been copied in three passes.
C15_Witness ==
    /\ pc = "SetFileTime"
    /\ input.size = 2 * ExtractBufSize + 1
    /\ input.rest > 0
    /\ Len(fs.files[CopyPath].data) = input.size
    /\ fs.files[CopyPath].data[input.size] = (input.size * input.k + 3) % 256

(***************************************************************************)
(* The allocation policy of the arena.                                     *)
(***************************************************************************)
\* The blocks of arena a from block cursor on, following next.
RECURSIVE BlockChain(_, _)
BlockChain(a, cursor) ==
    IF cursor = NULL THEN <<>>
    ELSE <<cursor>> \o BlockChain(a, a.blocks[cursor].next)

\* What a call of arena_malloc that returns may do to the arena: p is the
\* span it returns.
AllocationPolicy ==
    Len(allocs') = Len(allocs) + 1 =>
    LET p == allocs'[Len(allocs')]
        chain == BlockChain(arena, arena.head)
        fits == {n \in 1..Len(chain) :
                    arena.blocks[chain[n]].capacity - arena.blocks[chain[n]].used >= p.size}
        others(b) == \A c \in 1..Len(arena.blocks) :
                        c # b => arena'.blocks[c] = arena.blocks[c]
    IN /\ arena'.blockSize = arena.blockSize
       /\ IF fits # {}
          THEN LET b == chain[Least(fits)] IN
               /\ p.block = b
               /\ p.off = arena.blocks[b].used
               /\ arena'.blocks[b] = [arena.blocks[b] EXCEPT !.used = @ + p.size]
               /\ others(b)
               /\ Len(arena'.blocks) = Len(arena.blocks)
               /\ arena'.head = arena.head
               /\ arena'.blockNum = arena.blockNum
          ELSE /\ Len(arena'.blocks) = Len(arena.blocks) + 1
               /\ arena'.head = Len(arena'.blocks)
               /\ arena'.blockNum = arena.blockNum + 1
               /\ arena'.blocks[arena'.head] =
                     [used |-> p.size,
                      capacity |-> IF p.size > arena.blockSize THEN p.size
                                   ELSE arena.blockSize,
                      next |-> arena.head]
               /\ p.block = arena'.head
               /\ p.off = 0
               /\ others(arena'.head)

\* C16: arena_malloc takes the first block with room, going from the most
\* recent block to the oldest, and the span starts at what was used of it;
\* only when no block has room a block of max(blockSize, size) bytes is
\* made, used = size, the span at its start, the block becoming the head
\* and blockNum going up by one; no other block changes.  The chain from
\* head holds every block, the most recent first.
C16_AllocationPolicy ==
    /\ [][AllocationPolicy]_vars
    /\ [](arena # NoArena =>
            /\ BlockChain(arena, arena.head)
                  = [n \in 1..Len(arena.blocks) |-> Len(arena.blocks) - n + 1]
            /\ arena.blockNum = Len(arena.blocks))

\* A span taken from an older block, the most recent one being full, and a
\* block larger than the block size.
C16_Witness ==
    /\ pc = "arena"
    /\ Len(arena.blocks) >= 3
    /\ \E i \in 1..Len(allocs) :
          /\ allocs[i].block + 1 < Len(arena.blocks)
          /\ allocs[i].off > 0
          /\ \E j \in 1..(i - 1) : allocs[j].block > allocs[i].block
    /\ \E b \in 1..Len(arena.blocks) : arena.blocks[b].capacity > arena.blockSize

(***************************************************************************)
(* Properties of the walk of extract_files.                                *)
(***************************************************************************)
Extracting == pc \in {"extract_one", "copy_loop", "WriteFile", "SetFileTime"}

\* The records handled so far are the first of the collection, each once
\* and in order, and the record in hand or to be handled next is the one
\* after them, if there is one: only after the last one the walk ends.
WalkInOrder ==
    /\ Len(ex.done) <= Len(Collected)
    /\ \A i \in 1..Len(ex.done) : ex.done[i].attr = Collected[i]
    /\ Extracting =>
          ex.attr = IF Len(ex.done) < Len(Collected)
                    THEN Collected[Len(ex.done) + 1] ELSE NULL
    /\ pc \in {"copy_loop", "WriteFile", "SetFileTime"} => ex.attr # NULL
    /\ (pc = "exited" /\ exitCode = 0) => Len(ex.done) = Len(Collected)

\* A step removes no file and no directory, and changes no file but the one
\* that is open.
EarlierFilesKept ==
    /\ fs.dirs \subseteq fs'.dirs
    /\ DOMAIN fs.files \subseteq DOMAIN fs'.files
    /\ \A p \in DOMAIN fs.files : p # ex.hFile => fs'.files[p] = fs.files[p]

\* C17: extract_files handles every record of the collection once, in the
\* order of the collection, going on to the next whether the one before
\* ended by a failure to create directories or the file, by a failed write,
\* by a failed SetFileTime or well; and no step taken for a record removes
\* or changes a file written for a record before it.
C17_WalkNeverAborted == [](WalkInOrder) /\ [][EarlierFilesKept]_vars

\* The first record ended by a failed write, the second was extracted.
C17_Witness ==
    /\ pc = "exited"
    /\ Len(ex.done) = 2
    /\ ex.done[1].result = "write_failed"
    /\ ex.done[2].result = "extracted"
    /\ ex.done[1].path # ex.done[2].path
    /\ {ex.done[1].path, ex.done[2].path} \subseteq DOMAIN fs.files

(***************************************************************************)
(* Properties of the creation of output files.                             *)
(***************************************************************************)
\* The outcomes of a record for which CreateFile has made a file.
Created == {"extracted", "write_failed", "time_failed"}

\* A step of parse_and_extract_one_file up to the copy loop that returns.
OpenStep == pc = "extract_one" /\ ex.attr # NULL /\ pc' # "crashed"

\* When the path built for a record is that of a file that is there, the
\* step leaves every file as it is, opens nothing and ends the record as
\* one whose file could not be created; a file appears only in such a step,
\* empty, at a path at which there was none.
ExclusiveCreation ==
    /\ (OpenStep /\ ex'.path \in DOMAIN fs.files) =>
          /\ fs'.files = fs.files
          /\ rel' = rel
          /\ ex'.hFile = NoHandle
          /\ pc' = "extract_one"
          /\ ex'.done = Append(ex.done, [attr |-> ex.attr, path |-> ex'.path,
                                         result |-> "create_failed"])
    /\ DOMAIN fs'.files # DOMAIN fs.files =>
          /\ OpenStep
          /\ DOMAIN fs'.files = DOMAIN fs.files \cup {ex'.path}
          /\ ex'.hFile = ex'.path
          /\ fs'.files[ex'.path] = [data |-> <<>>, time |-> SystemTime]
    /\ \A p \in DOMAIN fs.files :
          fs'.files[p] # fs.files[p] => p = ex.hFile /\ pc \in {"WriteFile", "SetFileTime"}

\* Of the records with one path at most one has a file made for it, the
\* open file is that of no record before, every later record with the path
\* of an extracted one was skipped at CreateFile, and the file has the size
\* and the time of the extracted one; it has the content of the first
\* record of the container when that one is the extracted one.
FirstOneKept ==
    /\ \A i, j \in 1..Len(ex.done) :
          (i < j /\ ex.done[i].path = ex.done[j].path
                 /\ ex.done[i].result \in Created)
            => ex.done[j].result = "create_failed"
    /\ \A i \in 1..Len(ex.done) :
          ex.done[i].result \in Created =>
            /\ ex.done[i].path # ex.hFile
            /\ ex.done[i].path \in DOMAIN fs.files
    /\ \A i \in 1..Len(ex.done) :
          ex.done[i].result = "extracted" =>
            /\ fs.files[ex.done[i].path].time = attrs[ex.done[i].attr].lastWriteTime
            /\ U32(Len(fs.files[ex.done[i].path].data)) = attrs[ex.done[i].attr].fileSize
    /\ (Len(ex.done) >= 1 /\ ex.done[1].result = "extracted" /\ TableWhole) =>
          fs.files[ex.done[1].path] =
              [data |-> input.files[1].data, time |-> input.files[1].time]

\* C18: CreateFile is called with CREATE_NEW only: a record whose path is
\* that of a file that is there is skipped and the file keeps its content
\* and its time; so when two records of a container have one name the file
\* keeps the content and the time of the first.
C18_ExclusiveCreation == [](FirstOneKept) /\ [][ExclusiveCreation]_vars

\* Two records named a: the first was extracted, the second skipped, and
\* the file is that of the first.
C18_Witness ==
    /\ pc = "exited"
    /\ TableWhole
    /\ Len(ex.done) = 2
    /\ ex.done[1].path = ex.done[2].path
    /\ ex.done[1].result = "extracted"
    /\ ex.done[2].result = "create_failed"
    /\ env.faults = 0
    /\ input.files[2].data # input.files[1].data
    /\ input.files[2].time # input.files[1].time
    /\ fs.files[ex.done[1].path] =
          [data |-> input.files[1].data, time |-> input.files[1].time]

(***************************************************************************)
(* Properties of the SetFileTime step.                                     *)
(***************************************************************************)
\* The outcome recorded by the step, when it ends the handling of a record.
Outcome == ex'.done[Len(ex'.done)].result

\* SetFileTime is reached with nothing left to copy and the whole size in
\* the file; a file that is open, or whose record ended by a failed write
\* or a failed SetFileTime, has the time of its creation, the latter with
\* the whole size in it; the file of an extracted record has the time of
\* its FileAttr, which for a record that is in the stream with all its
\* bytes is the decode of its last 8 bytes.
TimeAfterCopy ==
    /\ pc = "SetFileTime" =>
          /\ U32IsZero(ex.fileSize)
          /\ U32(Len(fs.files[ex.hFile].data)) = attrs[ex.attr].fileSize
    /\ ex.hFile # NoHandle => fs.files[ex.hFile].time = SystemTime
    /\ pc \in {"extract_one", "exited"} =>
          ex.hFile = NoHandle /\ rel.hFile.rls = rel.hFile.acq
    /\ \A i \in 1..Len(ex.done) :
          LET d == ex.done[i] IN
          /\ d.result = "write_failed" => fs.files[d.path].time = SystemTime
          /\ d.result = "time_failed" =>
                /\ fs.files[d.path].time = SystemTime
                /\ U32(Len(fs.files[d.path].data)) = attrs[d.attr].fileSize
          /\ d.result = "extracted" =>
                /\ fs.files[d.path].time = attrs[d.attr].lastWriteTime
                /\ (input.fmt = "flagged" /\ d.attr \in CompleteRecords) =>
                      fs.files[d.path].time =
                          Decoded(RecordEnd(d.attr) - BYTES_OF_FILE_TIME + 1,
                                  RecordEnd(d.attr))

\* The time of a file changes only by the SetFileTime step of the record it
\* is open for, to the time of the FileAttr; that step, failed or not,
\* leaves the content, closes the handle and ends the record; a failed
\* write ends the record with the handle closed and no time set.
TimeStep ==
    /\ \A p \in DOMAIN fs.files :
          fs'.files[p].time # fs.files[p].time =>
            /\ pc = "SetFileTime"
            /\ p = ex.hFile
            /\ fs'.files[p].time = attrs[ex.attr].lastWriteTime
            /\ Outcome = "extracted"
    /\ pc = "SetFileTime" =>
          /\ fs'.files[ex.hFile].data = fs.files[ex.hFile].data
          /\ ex'.hFile = NoHandle
          /\ rel'.hFile = Release(rel.hFile)
          /\ pc' = "extract_one"
          /\ Len(ex'.done) = Len(ex.done) + 1
          /\ Outcome \in {"extracted", "time_failed"}
          /\ Outcome = "time_failed" => fs' = fs
    /\ (pc = "WriteFile" /\ pc' # "copy_loop") =>
          /\ fs' = fs
          /\ ex'.hFile = NoHandle
          /\ rel'.hFile = Release(rel.hFile)
          /\ pc' = "extract_one"
          /\ Len(ex'.done) = Len(ex.done) + 1
          /\ Outcome = "write_failed"

\* C19: the time of a record is set on its file only once all the bytes of
\* its size have been written, as the 8 decoded bytes of the record; it is
\* not set when a write fails; and a failed SetFileTime leaves the content
\* written and closes the handle.
C19_TimestampStep == [](TimeAfterCopy) /\ [][TimeStep]_vars

\* SetFileTime failed for the first record, whose content is in place with
\* the time of its creation, and the second record has its time.
C19_Witness ==
    /\ pc = "exited"
    /\ TableWhole
    /\ Len(ex.done) = 2
    /\ ex.done[1].result = "time_failed"
    /\ fs.files[ex.done[1].path] = [data |-> <<104, 105>>, time |-> SystemTime]
    /\ ex.done[2].result = "extracted"
    /\ fs.files[ex.done[2].path].time = Time2

(***************************************************************************)
(* Magic and version.                                                      *)
(***************************************************************************)
\* The decoded magic and version bytes of the stream of this run.
HeaderBytes == Decoded(1, BYTES_OF_MAGIC + BYTES_OF_VERSION)

\* The header has been parsed: magic and version are the decoded first 8
\* bytes, whatever they are, the cursor is behind them and the parser has
\* gone on to the records.
HeaderTaken ==
    (pc \notin {"main", "resource_init", "parse_pak_header"} /\ header.magic # <<>>) =>
        /\ header.magic \o header.version = HeaderBytes
        /\ pak.pos >= BYTES_OF_MAGIC + BYTES_OF_VERSION

\* C20: run from the same start on two containers that differ in nothing
\* but their magic and version bytes, one with the expected values and one
\* with others, the program comes to the same end: the same records
\* collected, the stream read as far, the same sidecar, the same files and
\* directories, the same exit code; other values are nowhere rejected.
C20_HeaderNotEnforced ==
    /\ HeaderTaken
    /\ env.first = NoRun => HeaderBytes = ExpectedMagic \o ExpectedVersion
    /\ env.first # NoRun =>
          /\ HeaderBytes \in OtherHeaders
          /\ pak.bytes = WithHeader(ContainerOf(input), HeaderBytes)
          /\ Ended => RunResult = env.first

\* The second run has ended by a return of 0 with two files extracted and
\* a magic that is not the expected one in its header.
C20_Witness ==
    /\ env.first # NoRun
    /\ pc = "exited"
    /\ exitCode = 0
    /\ header.magic # ExpectedMagic
    /\ Len(attrs) = 2
    /\ Cardinality(DOMAIN fs.files) = 2
    /\ \A i \in 1..2 : ex.done[i].result = "extracted"

====
